---- MODULE Spec2Model ----
(***************************************************************************)
(* Model of the platformer core of main.go: the Game struct, the per-frame *)
(* Update handler with its six steps, the exported Jump method and         *)
(* NewGame.                                                                *)
(*                                                                         *)
(* float64 quantities are held in fixed point: an integer n stands for     *)
(* n / Scale.  Sums, differences and comparisons are exact; a product with *)
(* a decimal factor (0.98, 0.8, 0.1) is rounded toward zero to the unit.   *)
(***************************************************************************)
EXTENDS Integers, Sequences, FiniteSets, TLC

VARIABLES
    player,       \* Game.player
    platforms,    \* Game.platforms
    camera,       \* Game.camera
    score,        \* Game.score
    gameStarted,  \* Game.gameStarted
    last,         \* what the most recent call did, step by step (history)
    calls,        \* number of calls made so far (bounded by MaxCalls)
    probe,        \* a direct call of checkCollision: its arguments and result
    other         \* the Game of a second run, fed the same keys (SpecTwin)

vars == <<player, platforms, camera, score, gameStarted, last, calls, probe, other>>

-----------------------------------------------------------------------------
(* Numbers *)

Scale == 100

\* v * num / den, rounded toward zero
Frac(v, num, den) ==
    IF v >= 0 THEN (v * num) \div den ELSE -(((-v) * num) \div den)

Abs(v) == IF v < 0 THEN -v ELSE v

Min(a, b) == IF a < b THEN a ELSE b

Max(a, b) == IF a > b THEN a ELSE b

screenWidth == 800 * Scale

screenHeight == 600 * Scale

gravity == (3 * Scale) \div 10

moveSpeed == 3 * Scale

jumpPower == -10 * Scale

\* moveSpeed * 0.2, the per-frame horizontal acceleration
moveAccel == Frac(moveSpeed, 2, 10)

\* v * airResistance (0.98)
airResistance(v) == Frac(v, 98, 100)

\* v * 0.8, the ground friction of handleInput
groundFriction(v) == Frac(v, 8, 10)

\* 0.1, below which friction snaps vx to zero
frictionEpsilon == Scale \div 10

\* 10, the cap on the fall speed
maxFallSpeed == 10 * Scale

\* d * 0.1, the camera's smoothing step
cameraSmooth(d) == Frac(d, 1, 10)

\* 500, the margin below the screen after which the game resets
fallMargin == 500 * Scale

PlatformType == 0

SolidType == 1

WoodType == 2

DirtType == 3

-----------------------------------------------------------------------------
(* Types *)

Block(x, y, w, h, t) ==
    [x |-> x * Scale, y |-> y * Scale, width |-> w * Scale,
     height |-> h * Scale, blockType |-> t]

\* the Player literal of NewGame and resetGame: every other field is zero
SpawnPlayer ==
    [x |-> 100 * Scale, y |-> 100 * Scale, vx |-> 0, vy |-> 0,
     width |-> 20 * Scale, height |-> 20 * Scale, onGround |-> FALSE]

NewGamePlatforms ==
    << Block(0, 600 - 40, 800 * 2, 40, DirtType),
       Block(300, 600 - 120, 200, 20, PlatformType),
       Block(600, 600 - 200, 150, 20, PlatformType),
       Block(200, 600 - 300, 100, 20, PlatformType),
       Block(500, 600 - 380, 250, 20, PlatformType),
       Block(400, 600 - 250, 30, 100, SolidType),
       Block(100, 600 - 100, 50, 60, DirtType),
       Block(700, 600 - 300, 40, 40, WoodType) >>

NewGame ==
    [player |-> SpawnPlayer,
     platforms |-> NewGamePlatforms,
     camera |-> [x |-> 0, y |-> 0],
     score |-> 0,
     gameStarted |-> FALSE]

\* the keys polled in one frame: left = ArrowLeft or A held, right = ArrowRight
\* or D held, jump = W just pressed, start = Space just pressed
Keys == [left : BOOLEAN, right : BOOLEAN, jump : BOOLEAN, start : BOOLEAN]

NoKeys == [left |-> FALSE, right |-> FALSE, jump |-> FALSE, start |-> FALSE]

-----------------------------------------------------------------------------
(* The steps of Update *)

\* variant: boxes that only touch count as colliding
checkCollisionTouching(obj1, obj2) ==
    /\ obj1.x <= obj2.x + obj2.width
    /\ obj1.x + obj1.width >= obj2.x
    /\ obj1.y <= obj2.y + obj2.height
    /\ obj1.y + obj1.height >= obj2.y

checkCollision(obj1, obj2) ==
    /\ obj1.x < obj2.x + obj2.width
    /\ obj1.x + obj1.width > obj2.x
    /\ obj1.y < obj2.y + obj2.height
    /\ obj1.y + obj1.height > obj2.y

\* variant: the test of the Jump method, without the probe below the player
canJumpGroundedOnly(g) == g.player.onGround

\* variant: the probe is the player's own box, not the box one pixel lower
canJumpProbeInPlace(g) ==
    \/ g.player.onGround
    \/ LET tempPlayer == [x |-> g.player.x, y |-> g.player.y,
                          width |-> g.player.width, height |-> g.player.height]
       IN  \E i \in 1..Len(g.platforms) : checkCollision(tempPlayer, g.platforms[i])

canJump(g) ==
    \/ g.player.onGround
    \/ LET tempPlayer == [x |-> g.player.x, y |-> g.player.y + 1 * Scale,
                          width |-> g.player.width, height |-> g.player.height]
       IN  \E i \in 1..Len(g.platforms) : checkCollision(tempPlayer, g.platforms[i])

\* the horizontal part of handleInput: the new vx
moveInput(p, k) ==
    IF k.left
    THEN Max(p.vx - moveAccel, -moveSpeed)
    ELSE IF k.right
         THEN Min(p.vx + moveAccel, moveSpeed)
         ELSE IF p.onGround
              THEN LET v == groundFriction(p.vx)
                   IN  IF Abs(v) < frictionEpsilon THEN 0 ELSE v
              ELSE p.vx

handleInput(g, k) ==
    LET moved == [g EXCEPT !.player.vx = moveInput(g.player, k)]
    IN  IF k.jump /\ canJump(moved)
        THEN [moved EXCEPT !.player.vy = jumpPower, !.player.onGround = FALSE]
        ELSE moved

\* variant: the fall speed is not capped
applyPhysicsUncapped(g) ==
    LET p  == g.player
        vy == IF ~p.onGround THEN p.vy + gravity ELSE p.vy
    IN  [g EXCEPT !.player.vy = vy,
                  !.player.vx = airResistance(p.vx)]

\* variant: gravity is added whether or not the player is grounded
applyPhysicsGravityAlways(g) ==
    LET p == g.player
    IN  [g EXCEPT !.player.vy = Min(p.vy + gravity, maxFallSpeed),
                  !.player.vx = airResistance(p.vx)]

applyPhysics(g) ==
    LET p  == g.player
        vy == IF ~p.onGround THEN p.vy + gravity ELSE p.vy
    IN  [g EXCEPT !.player.vy = Min(vy, maxFallSpeed),
                  !.player.vx = airResistance(p.vx)]

updatePlayerPosition(g) ==
    [g EXCEPT !.player.x = g.player.x + g.player.vx,
              !.player.y = g.player.y + g.player.vy]

\* the four overlaps computed for one block
Overlaps(p, block) ==
    [dx1 |-> p.x + p.width - block.x,
     dx2 |-> block.x + block.width - p.x,
     dy1 |-> p.y + p.height - block.y,
     dy2 |-> block.y + block.height - p.y]

minOverlap(o) == Min(Min(o.dx1, o.dx2), Min(o.dy1, o.dy2))

\* variant: the vertical depths are compared before the horizontal ones
BranchVerticalFirst(p, block) ==
    LET o == Overlaps(p, block)
        m == minOverlap(o)
    IN  IF ~checkCollision(p, block) THEN "none"
        ELSE IF m = o.dy1 THEN "dy1"
        ELSE IF m = o.dy2 THEN "dy2"
        ELSE IF m = o.dx1 THEN "dx1"
        ELSE "dx2"

\* the branch of the if / else-if chain taken for one block ("none": no collision)
Branch(p, block) ==
    LET o == Overlaps(p, block)
        m == minOverlap(o)
    IN  IF ~checkCollision(p, block) THEN "none"
        ELSE IF m = o.dx1 THEN "dx1"
        ELSE IF m = o.dx2 THEN "dx2"
        ELSE IF m = o.dy1 THEN "dy1"
        ELSE "dy2"

\* variant: a landing stops one pixel short of the block's top edge
resolveCollisionShort(p, block) ==
    LET b == Branch(p, block)
    IN  CASE b = "none" -> p
          [] b = "dx1"  -> [p EXCEPT !.x = block.x - p.width, !.vx = 0]
          [] b = "dx2"  -> [p EXCEPT !.x = block.x + block.width, !.vx = 0]
          [] b = "dy1"  -> [p EXCEPT !.y = block.y - p.height + 1 * Scale,
                                     !.vy = IF p.vy < 0 THEN 0 ELSE p.vy]
          [] b = "dy2"  -> IF p.vy >= 0
                           THEN [p EXCEPT !.y = block.y + block.height,
                                          !.vy = 0, !.onGround = TRUE]
                           ELSE [p EXCEPT !.y = block.y + block.height]

\* variant: the horizontal branches snap the player's left edge to the block's
\* left edge and keep the speed
resolveCollisionNoWidth(p, block) ==
    LET b == Branch(p, block)
    IN  CASE b = "none" -> p
          [] b = "dx1"  -> [p EXCEPT !.x = block.x]
          [] b = "dx2"  -> [p EXCEPT !.x = block.x]
          [] b = "dy1"  -> [p EXCEPT !.y = block.y - p.height,
                                     !.vy = IF p.vy < 0 THEN 0 ELSE p.vy]
          [] b = "dy2"  -> IF p.vy >= 0
                           THEN [p EXCEPT !.y = block.y + block.height,
                                          !.vy = 0, !.onGround = TRUE]
                           ELSE [p EXCEPT !.y = block.y + block.height]

\* the body of the loop of checkCollisions for one block
resolveCollision(p, block) ==
    LET b == Branch(p, block)
    IN  CASE b = "none" -> p
          [] b = "dx1"  -> [p EXCEPT !.x = block.x - p.width, !.vx = 0]
          [] b = "dx2"  -> [p EXCEPT !.x = block.x + block.width, !.vx = 0]
          [] b = "dy1"  -> [p EXCEPT !.y = block.y - p.height,
                                     !.vy = IF p.vy < 0 THEN 0 ELSE p.vy]
          [] b = "dy2"  -> IF p.vy >= 0
                           THEN [p EXCEPT !.y = block.y + block.height,
                                          !.vy = 0, !.onGround = TRUE]
                           ELSE [p EXCEPT !.y = block.y + block.height]

\* variant: onGround is not cleared before the loop
resetOnGroundSkipped(p) == p

\* the first statement of checkCollisions
resetOnGround(p) == [p EXCEPT !.onGround = FALSE]

\* the player after the first i blocks of the loop of checkCollisions
RECURSIVE afterBlocks(_, _, _)
afterBlocks(p, blocks, i) ==
    IF i = 0 THEN resetOnGround(p)
    ELSE resolveCollision(afterBlocks(p, blocks, i - 1), blocks[i])

\* variant: a block the player ran into is taken out of the list
checkCollisionsBreaksBlocks(g) ==
    [g EXCEPT !.player = afterBlocks(g.player, g.platforms, Len(g.platforms)),
              !.platforms = SelectSeq(g.platforms,
                                LAMBDA b : ~checkCollision(g.player, b))]

checkCollisions(g) ==
    [g EXCEPT !.player = afterBlocks(g.player, g.platforms, Len(g.platforms))]

\* variant: the camera is not clamped at the left end of the world
updateCameraUnclamped(g) ==
    LET targetX == g.player.x - screenWidth \div 2
        targetY == g.player.y - screenHeight \div 2
    IN  [g EXCEPT !.camera = [x |-> g.camera.x + cameraSmooth(targetX - g.camera.x),
                              y |-> g.camera.y + cameraSmooth(targetY - g.camera.y)]]

\* variant: the camera keeps the player from leaving the view on the left
updateCameraHoldsPlayer(g) ==
    LET targetX == g.player.x - screenWidth \div 2
        targetY == g.player.y - screenHeight \div 2
        cx == g.camera.x + cameraSmooth(targetX - g.camera.x)
        cy == g.camera.y + cameraSmooth(targetY - g.camera.y)
        cam == [x |-> IF cx < 0 THEN 0 ELSE cx, y |-> cy]
    IN  [g EXCEPT !.camera = cam, !.player.x = Max(g.player.x, cam.x)]

updateCamera(g) ==
    LET targetX == g.player.x - screenWidth \div 2
        targetY == g.player.y - screenHeight \div 2
        cx == g.camera.x + cameraSmooth(targetX - g.camera.x)
        cy == g.camera.y + cameraSmooth(targetY - g.camera.y)
    IN  [g EXCEPT !.camera = [x |-> IF cx < 0 THEN 0 ELSE cx, y |-> cy]]

\* variant: the whole game is put back, camera and start screen included
resetGameAll(g) ==
    [g EXCEPT !.player = SpawnPlayer, !.score = 0,
              !.camera = [x |-> 0, y |-> 0], !.gameStarted = FALSE]

resetGame(g) ==
    [g EXCEPT !.player = SpawnPlayer, !.score = 0]

\* variant: the margin below the screen is left out
checkBoundariesNoMargin(g) ==
    IF g.player.y > screenHeight THEN resetGame(g) ELSE g

checkBoundaries(g) ==
    IF g.player.y > screenHeight + fallMargin THEN resetGame(g) ELSE g

\* variant: the frame in which Space is pressed already plays
UpdateStartPlays(g, k) ==
    IF g.gameStarted \/ k.start
    THEN checkBoundaries(updateCamera(checkCollisions(
             updatePlayerPosition(applyPhysics(
                 handleInput([g EXCEPT !.gameStarted = TRUE], k))))))
    ELSE g

Update(g, k) ==
    IF ~g.gameStarted
    THEN IF k.start THEN [g EXCEPT !.gameStarted = TRUE] ELSE g
    ELSE checkBoundaries(updateCamera(checkCollisions(
             updatePlayerPosition(applyPhysics(handleInput(g, k))))))

Jump(g) ==
    IF g.player.onGround
    THEN [g EXCEPT !.player.vy = jumpPower, !.player.onGround = FALSE]
    ELSE g

-----------------------------------------------------------------------------
(* What one call did, step by step *)

\* the loop of checkCollisions block by block: the branch taken for block i and
\* the player before and after it
passOf(p, blocks) ==
    [i \in 1..Len(blocks) |->
        [branch |-> Branch(afterBlocks(p, blocks, i - 1), blocks[i]),
         before |-> afterBlocks(p, blocks, i - 1),
         after  |-> afterBlocks(p, blocks, i)]]

\* a call that ran none of the steps of a frame
NoSteps(op, g, k) ==
    [op |-> op, keys |-> k, pre |-> g.player, input |-> g.player,
     physics |-> g.player, move |-> g.player, pass |-> << >>,
     collide |-> g.player, reset |-> FALSE]

\* the record of Update(g, k)
Observe(g, k) ==
    IF ~g.gameStarted
    THEN NoSteps(IF k.start THEN "start" ELSE "wait", g, k)
    ELSE LET g1 == handleInput(g, k)
             g2 == applyPhysics(g1)
             g3 == updatePlayerPosition(g2)
             g4 == checkCollisions(g3)
         IN  [op |-> "frame", keys |-> k, pre |-> g.player,
              input |-> g1.player, physics |-> g2.player, move |-> g3.player,
              pass |-> passOf(g3.player, g.platforms), collide |-> g4.player,
              reset |-> (g4.player.y > screenHeight + fallMargin)]

\* a game together with the record of the call that produced it
Made(g) == [g |-> g, last |-> NoSteps("NewGame", g, NoKeys)]

Step(st, k) == [g |-> Update(st.g, k), last |-> Observe(st.g, k)]

\* n frames of a started game with the same keys
RECURSIVE Hold(_, _, _)
Hold(st, k, n) ==
    IF n = 0 \/ ~st.g.gameStarted THEN st
    ELSE IF n = 1 THEN Step(st, k)
    ELSE Hold(Hold(st, k, n \div 2), k, n - n \div 2)

\* a script is a sequence of <<keys, number of frames>>
RECURSIVE Play(_, _)
Play(st, script) ==
    IF script = << >> THEN st
    ELSE Play(Hold(st, script[1][1], script[1][2]), Tail(script))

Idle == NoKeys

Space == [NoKeys EXCEPT !.start = TRUE]

Left == [NoKeys EXCEPT !.left = TRUE]

Right == [NoKeys EXCEPT !.right = TRUE]

W == [NoKeys EXCEPT !.jump = TRUE]

-----------------------------------------------------------------------------
(* The game as shipped: NewGame, then Update once per frame *)

MaxCalls == 4

\* the state of the Game struct
G ==
    [player |-> player, platforms |-> platforms, camera |-> camera,
     score |-> score, gameStarted |-> gameStarted]

NoProbe == [called |-> FALSE, a |-> SpawnPlayer, b |-> SpawnPlayer, result |-> FALSE]

\* NewGame after Space was pressed
Started == Step(Made(NewGame), Space)

\* Play from the start of the game up to a point of interest; every state below
\* is the result of running Update on NewGame with the keys listed.
Scripts ==
    { << <<Idle, 53>> >>,                                  \* falling, just above the dirt block
      << <<Idle, 56>> >>,                                  \* come down on the dirt block
      << <<Idle, 55>>, <<Left, 5>>, <<Right, 1>> >>,       \* beside the dirt block, in the air
      << <<Idle, 55>>, <<Left, 5>>, <<Right, 5>> >>,       \* beside the dirt block, reaching the ground
      << <<Idle, 55>>, <<Right, 6>>, <<Idle, 10>>, <<Left, 2>> >>,
      << <<Idle, 55>>, <<Right, 6>>, <<Idle, 10>>, <<Left, 7>> >>,
      << <<Idle, 55>>, <<Right, 45>>, <<Idle, 10>>, <<W, 1>>, <<Right, 3>>, <<Idle, 4>> >>,
      << <<Idle, 55>>, <<Right, 46>>, <<Idle, 20>>, <<W, 1>>, <<Idle, 3>> >>,
      << <<Idle, 55>>, <<W, 1>>, <<Right, 9>>, <<Idle, 17>>, <<Right, 6>> >>,
      << <<Idle, 55>>, <<Right, 130>> >>,                  \* walked right along the ground past x = 400
      << <<Left, 115>> >> }                                \* fallen off the left end of the ground

Checkpoints == {Made(NewGame)} \cup {Play(Started, s) : s \in Scripts}

Init ==
    \E c \in Checkpoints :
        /\ player = c.g.player
        /\ platforms = c.g.platforms
        /\ camera = c.g.camera
        /\ score = c.g.score
        /\ gameStarted = c.g.gameStarted
        /\ last = c.last
        /\ calls = 0
        /\ probe = NoProbe
        /\ other = NewGame

\* the Game struct after a call
Becomes(g) ==
    /\ player' = g.player
    /\ platforms' = g.platforms
    /\ camera' = g.camera
    /\ score' = g.score
    /\ gameStarted' = g.gameStarted

\* the keys a frame can see: Space is polled only before the game has started
Polled == {k \in Keys : gameStarted => ~k.start}

\* ebiten calls Update once per frame
UpdateCall ==
    /\ calls < MaxCalls
    /\ \E k \in Polled :
          /\ Becomes(Update(G, k))
          /\ last' = Observe(G, k)
    /\ calls' = calls + 1
    /\ UNCHANGED <<probe, other>>

\* a call of the exported Jump method
JumpCall ==
    /\ calls < MaxCalls
    /\ Becomes(Jump(G))
    /\ last' = NoSteps("Jump", G, NoKeys)
    /\ calls' = calls + 1
    /\ UNCHANGED <<probe, other>>

Next == UpdateCall \/ JumpCall

Spec == Init /\ [][Next]_vars

-----------------------------------------------------------------------------
(* A drop onto a single obstacle with no key pressed: the set-up of the    *)
(* spec's drop-and-settle test.  The game is built by hand with one block, *)
(* started, and the actor released at rest above the block.                *)

DropBlocks == {Block(100, 500, 50, 60, DirtType), Block(0, 560, 1600, 40, DirtType)}

DropXs == {90 * Scale, 100 * Scale, 125 * Scale}

DropYs == {100 * Scale, 300 * Scale, 470 * Scale}

DropGames ==
    {[NewGame EXCEPT !.platforms = <<b>>, !.gameStarted = TRUE,
                     !.player.x = x, !.player.y = y] :
        b \in DropBlocks, x \in DropXs, y \in DropYs}

DropInit ==
    \E g \in DropGames :
        /\ player = g.player
        /\ platforms = g.platforms
        /\ camera = g.camera
        /\ score = g.score
        /\ gameStarted = g.gameStarted
        /\ last = NoSteps("NewGame", g, NoKeys)
        /\ calls = 0
        /\ probe = NoProbe
        /\ other = NewGame

\* a frame in which no key is down; the run is not cut short by MaxCalls
IdleFrame ==
    /\ Becomes(Update(G, Idle))
    /\ last' = Observe(G, Idle)
    /\ UNCHANGED <<calls, probe, other>>

DropNext == IdleFrame

SpecDrop == DropInit /\ [][DropNext]_vars

-----------------------------------------------------------------------------
(* checkCollision called directly on two boxes *)

MaxCoord == 3

MaxSize == 2

Boxes == [x : 0..MaxCoord, y : 0..MaxCoord, width : 1..MaxSize, height : 1..MaxSize]

BoxesInit ==
    /\ player = NewGame.player
    /\ platforms = NewGame.platforms
    /\ camera = NewGame.camera
    /\ score = NewGame.score
    /\ gameStarted = NewGame.gameStarted
    /\ last = NoSteps("NewGame", NewGame, NoKeys)
    /\ calls = 0
    /\ \E a \in Boxes, b \in Boxes :
          probe = [called |-> FALSE, a |-> a, b |-> b, result |-> FALSE]
    /\ other = NewGame

\* g.checkCollision(a, b): it reads its arguments and returns the result
CollisionCall ==
    /\ ~probe.called
    /\ probe' = [probe EXCEPT !.called = TRUE,
                              !.result = checkCollision(probe.a, probe.b)]
    /\ UNCHANGED <<player, platforms, camera, score, gameStarted, last, calls, other>>

BoxesNext == CollisionCall

SpecBoxes == BoxesInit /\ [][BoxesNext]_vars

-----------------------------------------------------------------------------
(* Update applied to a game set up by hand with the actor below the        *)
(* fall-out line: the set-up of the spec's boundary-reset test.  No frame  *)
(* of the game as shipped starts there, since the frame in which y first   *)
(* exceeds the line ends with the reset.                                   *)

FallLine == screenHeight + fallMargin

BelowYs == {FallLine + 1, FallLine + 5 * Scale, FallLine + 100 * Scale}

BelowVys == {jumpPower, -gravity, 0, 5 * Scale, maxFallSpeed}

BelowPlayers ==
    {[SpawnPlayer EXCEPT !.y = y, !.vy = vy, !.vx = vx, !.onGround = og] :
        y \in BelowYs, vy \in BelowVys, vx \in {0, moveSpeed}, og \in {FALSE}}
    \cup {[SpawnPlayer EXCEPT !.y = y, !.onGround = TRUE] : y \in BelowYs}

BelowGames ==
    {[NewGame EXCEPT !.gameStarted = TRUE, !.player = p, !.score = sc] :
        p \in BelowPlayers, sc \in {0, 7}}

BelowInit ==
    \E g \in BelowGames :
        /\ player = g.player
        /\ platforms = g.platforms
        /\ camera = g.camera
        /\ score = g.score
        /\ gameStarted = g.gameStarted
        /\ last = NoSteps("NewGame", g, NoKeys)
        /\ calls = 0
        /\ probe = NoProbe
        /\ other = NewGame

SpecBelow == BelowInit /\ [][Next]_vars

-----------------------------------------------------------------------------
(* checkCollisions called directly on a game built by hand: a registry of  *)
(* up to MaxBlocks obstacles and the actor's box placed over them, as the  *)
(* integration of some frame could have left it.  The registries hold      *)
(* adjacent, stacked and corner-forming obstacles and a gap narrower than  *)
(* the actor.                                                              *)

MaxBlocks == 2

PassBlocks ==
    { Block(0, 100, 50, 100, SolidType),      \* left pillar
      Block(62, 100, 50, 100, SolidType),     \* right pillar, 12 from the left one
      Block(50, 40, 30, 40, WoodType),        \* a box above the gap
      Block(0, 140, 120, 20, PlatformType) }  \* a floor across both pillars

\* the registries: the sequences of up to MaxBlocks different blocks
RECURSIVE Registries(_)
Registries(n) ==
    IF n = 0 THEN {<< >>}
    ELSE LET shorter == Registries(n - 1)
         IN  shorter \cup
             {Append(r, b) : r \in {t \in shorter : Len(t) = n - 1},
                             b \in PassBlocks}

Distinct(r) == \A i, j \in 1..Len(r) : i # j => r[i] # r[j]

PassRegistries == {r \in Registries(MaxBlocks) : Len(r) >= 1 /\ Distinct(r)}

PassXs == {40 * Scale, 45 * Scale, 52 * Scale, 55 * Scale}

PassYs == {50 * Scale, 75 * Scale, 88 * Scale, 90 * Scale, 140 * Scale}

PassVxs == {-moveSpeed, 0, moveSpeed}

PassVys == {-5 * Scale, 0, maxFallSpeed}

PassGames ==
    {[NewGame EXCEPT !.platforms = r, !.gameStarted = TRUE,
                     !.player.x = x, !.player.y = y,
                     !.player.vx = vx, !.player.vy = vy] :
        r \in PassRegistries, x \in PassXs, y \in PassYs,
        vx \in PassVxs, vy \in PassVys}

PassInit ==
    \E g \in PassGames :
        /\ player = g.player
        /\ platforms = g.platforms
        /\ camera = g.camera
        /\ score = g.score
        /\ gameStarted = g.gameStarted
        /\ last = NoSteps("NewGame", g, NoKeys)
        /\ calls = 0
        /\ probe = NoProbe
        /\ other = NewGame

\* g.checkCollisions(): one pass over the registry
CollisionsCall ==
    /\ last.op = "NewGame"
    /\ Becomes(checkCollisions(G))
    /\ last' = [NoSteps("pass", G, NoKeys) EXCEPT
                   !.pass = passOf(player, platforms),
                   !.collide = checkCollisions(G).player]
    /\ UNCHANGED <<calls, probe, other>>

PassNext == CollisionsCall

SpecPass == PassInit /\ [][PassNext]_vars

-----------------------------------------------------------------------------
(* Two runs side by side: the game as played up to a checkpoint, and a     *)
(* second game that differs from it in the camera offset only.  Every call *)
(* is made on both, with the same keys.                                    *)

MaxTwinCalls == 3

CameraOffsets ==
    { [x |-> 500 * Scale, y |-> -300 * Scale],
      [x |-> 0, y |-> 700 * Scale] }

TwinScripts ==
    { << <<Idle, 55>>, <<W, 1>>, <<Right, 9>>, <<Idle, 17>>, <<Right, 6>> >>,
      << <<Idle, 55>>, <<Right, 130>> >>,
      << <<Left, 115>> >> }

TwinCheckpoints == {Made(NewGame)} \cup {Play(Started, s) : s \in TwinScripts}

TwinInit ==
    \E c \in TwinCheckpoints, cam \in CameraOffsets :
        /\ cam # c.g.camera
        /\ player = c.g.player
        /\ platforms = c.g.platforms
        /\ camera = c.g.camera
        /\ score = c.g.score
        /\ gameStarted = c.g.gameStarted
        /\ last = c.last
        /\ calls = 0
        /\ probe = NoProbe
        /\ other = [c.g EXCEPT !.camera = cam]

\* one frame of both runs, the same keys polled
TwinUpdateCall ==
    /\ calls < MaxTwinCalls
    /\ \E k \in Polled :
          /\ Becomes(Update(G, k))
          /\ last' = Observe(G, k)
          /\ other' = Update(other, k)
    /\ calls' = calls + 1
    /\ UNCHANGED probe

\* the exported Jump called on both runs
TwinJumpCall ==
    /\ calls < MaxTwinCalls
    /\ Becomes(Jump(G))
    /\ last' = NoSteps("Jump", G, NoKeys)
    /\ other' = Jump(other)
    /\ calls' = calls + 1
    /\ UNCHANGED probe

TwinNext == TwinUpdateCall \/ TwinJumpCall

SpecTwin == TwinInit /\ [][TwinNext]_vars

-----------------------------------------------------------------------------
(* Properties *)

\* the area two boxes have in common
OverlapArea(a, b) ==
    Max(0, Min(a.x + a.width, b.x + b.width) - Max(a.x, b.x))
  * Max(0, Min(a.y + a.height, b.y + b.height) - Max(a.y, b.y))

\* the horizontal extents of two boxes overlap
OverlapsInX(a, b) == a.x < b.x + b.width /\ a.x + a.width > b.x

\* the player p stands on top of block b
StandsOn(p, b) == p.y + p.height = b.y /\ OverlapsInX(p, b)

\* a further frame with no key down leaves the player as it is
AtRest == Update(G, Idle).player = player

\* C1 (as claimed): an actor dropped from rest above a single obstacle, with no
\* key down in any frame, comes to rest standing on the obstacle with vy = 0 and
\* grounded = true.  Every drop ends in a state that further idle frames leave
\* unchanged, so the claim requires that state to be the settled one.
C1_DropSettles ==
    (gameStarted /\ last.op = "frame" /\ AtRest) =>
        /\ StandsOn(player, platforms[1])
        /\ player.vy = 0
        /\ player.onGround

\* C2: checkCollision(a, b) is true exactly when the two boxes have an area in
\* common, so it is false for boxes that are apart or share only an edge or a
\* corner; the call changes nothing in the game.
C2_CollisionIffArea ==
    probe.called =>
        /\ probe.result <=> (OverlapArea(probe.a, probe.b) > 0)
        /\ G = NewGame

\* C2 witness: two boxes side by side that share an edge, reported as apart
C2_SharedEdge ==
    /\ probe.called
    /\ ~probe.result
    /\ probe.a.x + probe.a.width = probe.b.x
    /\ probe.a.y < probe.b.y + probe.b.height
    /\ probe.a.y + probe.a.height > probe.b.y

\* the player's box one pixel lower has an area in common with some block
BlockJustBelow(p) ==
    \E i \in 1..Len(platforms) :
        OverlapArea([p EXCEPT !.y = p.y + 1 * Scale], platforms[i]) > 0

\* C3: in the input step of a frame with W newly pressed the jump fires exactly
\* when the player is grounded or the box one pixel lower meets a block; a jump
\* that fires sets vy to jumpPower and grounded to false; otherwise, and in a
\* frame without W, the input step leaves vy and grounded as they were.
C3_JumpGuard ==
    last.op = "frame" =>
        IF last.keys.jump /\ (last.pre.onGround \/ BlockJustBelow(last.pre))
        THEN last.input.vy = jumpPower /\ ~last.input.onGround
        ELSE last.input.vy = last.pre.vy /\ last.input.onGround = last.pre.onGround

\* C3 witness: a jump that fires on the probe alone, the player not grounded
C3_JumpFromProbe ==
    /\ last.op = "frame"
    /\ last.keys.jump
    /\ ~last.pre.onGround
    /\ BlockJustBelow(last.pre)
    /\ last.pre.vy # jumpPower
    /\ last.input.vy = jumpPower

\* the four penetration depths of player p in block b
RightDepth(p, b) == p.x + p.width - b.x

LeftDepth(p, b) == b.x + b.width - p.x

BottomDepth(p, b) == p.y + p.height - b.y

TopDepth(p, b) == b.y + b.height - p.y

\* d is no larger than any of the four depths
Smallest(d, p, b) ==
    d <= RightDepth(p, b) /\ d <= LeftDepth(p, b) /\ d <= BottomDepth(p, b) /\ d <= TopDepth(p, b)

\* q is p stopped at the left face of b, y and vy untouched
StoppedAtLeftFace(p, q, b) ==
    q.x = b.x - p.width /\ q.vx = 0 /\ q.y = p.y /\ q.vy = p.vy

\* q is p stopped at the right face of b, y and vy untouched
StoppedAtRightFace(p, q, b) ==
    q.x = b.x + b.width /\ q.vx = 0 /\ q.y = p.y /\ q.vy = p.vy

\* C4 (as claimed): when the player after integration moves right, overlaps a
\* block and its right-edge depth is the smallest of the four, the whole
\* collision pass leaves it at the block's left face with vx = 0 and y, vy
\* unchanged; symmetrically at the right face for a player moving left.
C4_WallStopWholePass ==
    last.op = "frame" =>
        \A i \in 1..Len(platforms) :
            LET p == last.move
                q == last.collide
                b == platforms[i]
            IN  /\ (p.vx > 0 /\ OverlapArea(p, b) > 0 /\ Smallest(RightDepth(p, b), p, b))
                       => StoppedAtLeftFace(p, q, b)
                /\ (p.vx < 0 /\ OverlapArea(p, b) > 0 /\ Smallest(LeftDepth(p, b), p, b))
                       => StoppedAtRightFace(p, q, b)

\* C4 (amended): the same, for the resolution of that one block in its turn:
\* with the player as the blocks before it in the list left it, resolving the
\* block leaves the player at the block's face with vx = 0 and y, vy unchanged.
\* For the right face the left-edge depth must be smaller than the right-edge
\* depth, which comes first in the chain.
C4_WallStopPerBlock ==
    last.op = "frame" =>
        \A i \in 1..Len(platforms) :
            LET p == last.pass[i].before
                q == last.pass[i].after
                b == platforms[i]
            IN  /\ (p.vx > 0 /\ OverlapArea(p, b) > 0 /\ Smallest(RightDepth(p, b), p, b))
                       => StoppedAtLeftFace(p, q, b)
                /\ (p.vx < 0 /\ OverlapArea(p, b) > 0 /\ Smallest(LeftDepth(p, b), p, b)
                        /\ LeftDepth(p, b) < RightDepth(p, b))
                       => StoppedAtRightFace(p, q, b)

\* C4 witness: a player walking right on the ground into the side of a block:
\* the block stops it, and the ground under it moves it up in the same pass
C4_StoppedOnTheGround ==
    /\ last.op = "frame"
    /\ last.collide.y # last.move.y
    /\ \E i \in 1..Len(platforms) :
          /\ last.pass[i].before.vx > 0
          /\ OverlapArea(last.move, platforms[i]) > 0
          /\ Smallest(RightDepth(last.move, platforms[i]), last.move, platforms[i])
          /\ StoppedAtLeftFace(last.pass[i].before, last.pass[i].after, platforms[i])

\* the player of NewGame and of a reset
AtSpawn(p) ==
    /\ p.x = 100 * Scale /\ p.y = 100 * Scale
    /\ p.width = 20 * Scale /\ p.height = 20 * Scale
    /\ p.vx = 0 /\ p.vy = 0
    /\ ~p.onGround

\* C5 (as claimed): a frame of a started game that begins with the player below
\* the fall-out line ends with the player at the spawn and score = 0, whatever
\* the velocity and the keys.
C5_ResetFromBelow ==
    (last.op = "frame" /\ last.pre.y > 1100 * Scale) => (AtSpawn(player) /\ score = 0)

\* C5 (amended): a frame in which the player is below the fall-out line when the
\* boundary is checked, after the frame's input, physics, move and collisions,
\* ends with the player at the spawn and score = 0; any other frame leaves the
\* player where the collisions left it.
C5_ResetWhenStillBelow ==
    last.op = "frame" =>
        IF last.collide.y > 1100 * Scale
        THEN AtSpawn(player) /\ score = 0
        ELSE player = last.collide

\* C5 witness: a frame begun below the line, moving, with a key down, that resets
C5_ResetHappened ==
    /\ last.op = "frame"
    /\ last.pre.y > 1100 * Scale
    /\ last.pre.vx # 0 /\ last.pre.vy # 0
    /\ last.keys.left
    /\ last.collide.y > 1100 * Scale
    /\ AtSpawn(player) /\ score = 0

\* C6: the camera's x is never negative, wherever the player is; its y is free.
C6_CameraNotLeftOfOrigin == camera.x >= 0

\* C6 witness: the player left of the middle of the screen: x held at 0, y negative
C6_ClampedAtOrigin ==
    /\ last.op = "frame"
    /\ last.collide.x < 400 * Scale
    /\ camera.x = 0
    /\ camera.y < 0

\* C7: before the start, a call changes nothing in the player, camera, score or
\* blocks whatever keys are down; the flag is set only by an Update whose Space
\* key is newly pressed (and that frame runs no step); once set it stays set.
C7_StartGate ==
    [][ /\ ~gameStarted =>
              /\ player' = player /\ camera' = camera
              /\ score' = score /\ platforms' = platforms
        /\ (~gameStarted /\ gameStarted') => (last'.op # "Jump" /\ last'.keys.start)
        /\ gameStarted => gameStarted' ]_vars

\* C7 witness: the frame that started the game, with movement and jump keys down
C7_StartedWithKeysDown ==
    /\ gameStarted
    /\ last.op = "start"
    /\ last.keys.start /\ last.keys.right /\ last.keys.jump
    /\ AtSpawn(player)
    /\ camera = [x |-> 0, y |-> 0]

\* C8: at the end of a frame the player is grounded only if the collision pass
\* of that frame resolved some block through the last branch (dy2) with vy >= 0;
\* a frame whose pass met no block ends not grounded.
C8_GroundedOnlyFromThisPass ==
    last.op = "frame" =>
        /\ player.onGround =>
              \E i \in 1..Len(platforms) :
                  /\ last.pass[i].branch = "dy2"
                  /\ last.pass[i].before.vy >= 0
        /\ (\A i \in 1..Len(platforms) :
                OverlapArea(last.pass[i].before, platforms[i]) = 0)
              => ~player.onGround

\* C8 witness: a frame begun grounded whose pass met no block ends not grounded
C8_GroundedForgotten ==
    /\ last.op = "frame"
    /\ last.pre.onGround
    /\ last.input.onGround
    /\ \A i \in 1..Len(platforms) : last.pass[i].branch = "none"
    /\ ~player.onGround

\* C9: the list of blocks stays the one NewGame created.
C9_PlatformsFixed == platforms = NewGamePlatforms

\* C9 witness: a frame whose collision pass resolved two blocks
C9_AfterCollisions ==
    /\ last.op = "frame"
    /\ Cardinality({i \in 1..Len(platforms) : last.pass[i].branch # "none"}) >= 2
    /\ platforms = NewGamePlatforms

\* C10: resetGame applied to any state gives the player and score of NewGame and
\* leaves camera, start flag and blocks alone; applied again it changes nothing;
\* a frame that reset ends in such a state.
C10_ResetIdempotent ==
    LET r == resetGame(G)
    IN  /\ resetGame(r) = r
        /\ r.player = NewGame.player /\ r.score = NewGame.score
        /\ r.camera = camera /\ r.gameStarted = gameStarted /\ r.platforms = platforms
        /\ (last.op = "frame" /\ last.reset) => (G = r)

\* C10 witness: the state a reset left behind, the camera away from the origin
C10_AfterReset ==
    /\ last.op = "frame"
    /\ last.reset
    /\ gameStarted
    /\ camera.y # 0
    /\ AtSpawn(player)

\* the player p stands on top of some block
StandsOnSome(p) == \E i \in 1..Len(platforms) : StandsOn(p, platforms[i])

\* C11 (as claimed): at the end of every call, a grounded player stands on top
\* of some block: its bottom edge is at the block's top edge and their
\* horizontal extents overlap.
C11_GroundedStandsOn == player.onGround => StandsOnSome(player)

\* the player's top edge is inside block b from below, by less than any other depth
HeadHit(p, b) ==
    /\ OverlapArea(p, b) > 0
    /\ TopDepth(p, b) < RightDepth(p, b)
    /\ TopDepth(p, b) < LeftDepth(p, b)
    /\ TopDepth(p, b) < BottomDepth(p, b)

\* C12 (as claimed): when a block's turn comes in the collision pass and the
\* player's top edge has entered the block's bottom edge by the smallest of the
\* four depths, a player moving up is placed directly below the block with
\* vy = 0, and a player not moving up keeps its vy.
C12_HeadHit ==
    last.op = "frame" =>
        \A i \in 1..Len(platforms) :
            LET p == last.pass[i].before
                q == last.pass[i].after
                b == platforms[i]
            IN  /\ (HeadHit(p, b) /\ p.vy < 0) => (q.y = b.y + b.height /\ q.vy = 0)
                /\ (HeadHit(p, b) /\ p.vy >= 0) => (q.vy = p.vy)

\* the player before the pass of the last call, grounded cleared
EnteringPass == [last.move EXCEPT !.onGround = FALSE]

\* C13: in a collision pass the blocks are taken in the order of the list, each
\* against the player as the one before left it.  A block that does not
\* intersect the player leaves it alone.  For one that does, exactly one branch
\* is applied: the first in the order right (dx1), left (dx2), bottom (dy1),
\* top (dy2) whose depth is the smallest of the four; dx1 and dx2 move only x,
\* dy1 and dy2 move only y.
C13_MinDepthInOrder ==
    last.op \in {"pass", "frame"} =>
        /\ last.pass[1].before = EnteringPass
        /\ \A i \in 1..(Len(platforms) - 1) : last.pass[i + 1].before = last.pass[i].after
        /\ last.collide = last.pass[Len(platforms)].after
        /\ \A i \in 1..Len(platforms) :
              LET p  == last.pass[i].before
                  q  == last.pass[i].after
                  b  == platforms[i]
                  br == last.pass[i].branch
              IN  IF OverlapArea(p, b) = 0
                  THEN br = "none" /\ q = p
                  ELSE IF Smallest(RightDepth(p, b), p, b)
                  THEN br = "dx1" /\ q.x = b.x - p.width /\ q.y = p.y
                  ELSE IF Smallest(LeftDepth(p, b), p, b)
                  THEN br = "dx2" /\ q.x = b.x + b.width /\ q.y = p.y
                  ELSE IF Smallest(BottomDepth(p, b), p, b)
                  THEN br = "dy1" /\ q.y = b.y - p.height /\ q.x = p.x
                  ELSE br = "dy2" /\ q.y = b.y + b.height /\ q.x = p.x

\* C13 witness: a pass over two blocks in which the first moved the player and
\* the second, met at the moved position, had its right and bottom depths equal
\* and smallest, and was resolved to the right
C13_TieAfterDisplacement ==
    /\ last.op = "pass"
    /\ Len(platforms) = 2
    /\ last.pass[1].branch # "none"
    /\ last.pass[2].before # EnteringPass
    /\ LET p == last.pass[2].before
           b == platforms[2]
       IN  /\ OverlapArea(p, b) > 0
           /\ RightDepth(p, b) = BottomDepth(p, b)
           /\ Smallest(RightDepth(p, b), p, b)
           /\ last.pass[2].branch = "dx1"
           /\ last.collide.y = p.y

\* C14: after any calls from NewGame, vy is at most the fall-speed cap 10 and at
\* least the jump impulse -10, and vx is at most 3 in magnitude.
C14_VelocityBounds ==
    /\ player.vy <= 10 * Scale
    /\ player.vy >= -10 * Scale
    /\ Abs(player.vx) <= 3 * Scale

\* C14 witness: a frame in which both caps acted: the player, already falling at
\* the cap and running right at nearly full speed, is held at vy = 10 and vx = 3
C14_BothCapsActed ==
    /\ last.op = "frame"
    /\ ~last.input.onGround
    /\ last.input.vy + gravity > 10 * Scale
    /\ last.physics.vy = 10 * Scale
    /\ last.pre.vx + moveAccel > 3 * Scale
    /\ last.input.vx = 3 * Scale
    /\ player.vy = 10 * Scale

\* vx after ground friction: times 0.8, and exactly 0 below 0.1
Slowed(vx) ==
    LET v == Frac(vx, 8, 10)
    IN  IF Abs(v) < Scale \div 10 THEN 0 ELSE v

\* the frame just made ended with the player landed on block i: the pass pushed
\* it up out of the block, and it stands on the block
LandedOn(i) ==
    /\ last.op = "frame"
    /\ last.pass[i].branch = "dy1"
    /\ StandsOn(player, platforms[i])

\* C15 (as claimed): a frame that begins with the player standing on a block it
\* has landed on, with neither left nor right held, applies ground friction to
\* vx in its input step.
C15_FrictionWhileStanding ==
    [][ ( /\ gameStarted
          /\ \E i \in 1..Len(platforms) : LandedOn(i)
          /\ last'.op = "frame"
          /\ ~last'.keys.left /\ ~last'.keys.right )
        => last'.input.vx = Slowed(player.vx) ]_vars

\* a grounded player has no vertical speed
GroundedAtRest(p) == p.onGround => p.vy = 0

\* C16: grounded implies vy = 0 at the end of every call, Jump included, and
\* after each step of a frame: input, physics, move, every block of the
\* collision pass, and the pass as a whole.
C16_GroundedHasNoVy ==
    /\ GroundedAtRest(player)
    /\ last.op = "frame" =>
          /\ GroundedAtRest(last.pre)
          /\ GroundedAtRest(last.input)
          /\ GroundedAtRest(last.physics)
          /\ GroundedAtRest(last.move)
          /\ GroundedAtRest(last.collide)
          /\ \A i \in 1..Len(platforms) :
                GroundedAtRest(last.pass[i].before) /\ GroundedAtRest(last.pass[i].after)

\* C16 witness: a frame begun grounded, without a jump: still grounded after the
\* physics step, which added no gravity
C16_GroundedThroughPhysics ==
    /\ last.op = "frame"
    /\ last.pre.onGround
    /\ ~last.keys.jump
    /\ last.physics.onGround
    /\ last.physics.vy = 0
    /\ last.move.y = last.pre.y

C18_StandingCanJump ==
    (last.op = "frame" /\ last.keys.jump /\ StandsOnSome(last.pre)) =>
        (last.input.vy = -10 * Scale /\ ~last.input.onGround)

\* C18 witness: a jump from the ground by a player that has come to rest there
\* with grounded false and vy at the cap, while left is held
C18_JumpWhileNotGrounded ==
    /\ last.op = "frame"
    /\ last.keys.jump /\ last.keys.left
    /\ StandsOn(last.pre, platforms[1])
    /\ ~last.pre.onGround
    /\ last.pre.vy = 10 * Scale
    /\ last.input.vy = -10 * Scale
    /\ player.y < last.pre.y

\* everything of a game but the camera (the blocks are the same list throughout)
ButCamera(g) ==
    [player |-> g.player, score |-> g.score, gameStarted |-> g.gameStarted,
     platforms |-> g.platforms]

\* C19: two runs that start from games differing in the camera only and get the
\* same keys agree, after every call, on the player (position, velocity,
\* grounded), the score and the start flag.
C19_CameraDoesNotInterfere == ButCamera(other) = ButCamera(G)

\* C19 witness: a frame that reset both runs, their cameras still apart
C19_ResetInBothRuns ==
    /\ last.op = "frame"
    /\ last.reset
    /\ AtSpawn(player)
    /\ AtSpawn(other.player)
    /\ Abs(other.camera.y - camera.y) > 100 * Scale

====
